---------------------------- MODULE Spec2Model ----------------------------
(***************************************************************************)
(* A model of PlatformioMbedAdapter (pio_mbed_adapter.py): the adapter     *)
(* that drives the mbed build api for PlatformIO.                          *)
(*                                                                         *)
(* Python strings are sequences of character codes (ord values), so that   *)
(* substring tests, str.replace, str.index and the ordering used by        *)
(* list.sort are computed as Python computes them.                         *)
(***************************************************************************)
EXTENDS Naturals, Sequences, FiniteSets, TLC

VARIABLES
    \* process_symbols applied to one raw symbol list
    raw_symbols,      \* the argument `symbols`
    build_symbols,    \* the list process_symbols returned
    symbols_done,     \* TRUE once process_symbols has returned
    \* fix_paths applied to one list of paths
    framework_path,   \* self.framework_path
    raw_paths,        \* the argument `paths`
    fixed_paths,      \* the list fix_paths returned
    paths_done,       \* TRUE once fix_paths has returned
    raw_path,         \* the argument `path` of one fix_path call
    fixed_path,       \* what that fix_path call returned
    path_done,        \* TRUE once that fix_path call has returned
    \* one PlatformioMbedAdapter object and the process that owns it
    target,           \* self.target
    profile_isfile,   \* isfile(<framework_path>/tools/profiles/release.json)
    src_paths,        \* self.src_paths
    toolchain,        \* self.toolchain
    resources,        \* self.resources
    pc,               \* position of the running call
    last_call,        \* the method called last
    generate_config,  \* argument of the running extract_project_info call
    calls,            \* the calls the running extract_project_info call made
    stderr,           \* what the adapter wrote to sys.stderr
    error,            \* the exception that ended the process, or "none"
    result,           \* what the last extract_project_info call returned
    merges,           \* the merge_region_list requests of the last merge_apps
    merge_args,       \* the arguments of the last merge_apps call
    merging           \* what the last needs_merging call returned

symbol_vars == <<raw_symbols, build_symbols, symbols_done>>
path_vars == <<raw_paths, fixed_paths, paths_done, raw_path, fixed_path, path_done>>
adapter_vars == <<target, profile_isfile, src_paths, toolchain, resources, pc,
                  last_call, generate_config, calls, stderr, error, result, merges,
                  merge_args, merging>>
vars == <<symbol_vars, framework_path, path_vars, adapter_vars>>

---------------------------------------------------------------------------
(* Python str and list operations *)

\* sub in s
In(sub, s) ==
    \E i \in 0..(Len(s) - Len(sub)) : SubSeq(s, i + 1, i + Len(sub)) = sub

\* s.index(sub), for sub in s: the lowest 0-based offset where sub occurs
Index(s, sub) ==
    CHOOSE i \in 0..(Len(s) - Len(sub)) :
        /\ SubSeq(s, i + 1, i + Len(sub)) = sub
        /\ \A j \in 0..(Len(s) - Len(sub)) :
               SubSeq(s, j + 1, j + Len(sub)) = sub => i <= j

\* s[n:]
From(s, n) == SubSeq(s, n + 1, Len(s))

\* s.replace(old, new) for a one-character old
RECURSIVE Replace(_, _, _)
Replace(s, old, new) ==
    IF s = <<>> THEN <<>>
    ELSE (IF <<Head(s)>> = old THEN new ELSE <<Head(s)>>)
             \o Replace(Tail(s), old, new)

\* a < b for two str values
RECURSIVE StrLess(_, _)
StrLess(a, b) ==
    IF b = <<>> THEN FALSE
    ELSE IF a = <<>> THEN TRUE
    ELSE IF Head(a) # Head(b) THEN Head(a) < Head(b)
    ELSE StrLess(Tail(a), Tail(b))

\* the place of x in an ascending list
RECURSIVE Insert(_, _)
Insert(x, sorted) ==
    IF sorted = <<>> THEN <<x>>
    ELSE IF StrLess(x, Head(sorted)) THEN <<x>> \o sorted
    ELSE <<Head(sorted)>> \o Insert(x, Tail(sorted))

\* list.sort() on a list of str
RECURSIVE Sort(_)
Sort(list) ==
    IF list = <<>> THEN <<>> ELSE Insert(Head(list), Sort(Tail(list)))

\* the lists of at most n elements of S
RECURSIVE ListsUpTo(_, _)
ListsUpTo(S, n) ==
    IF n = 0 THEN {<<>>}
    ELSE LET shorter == ListsUpTo(S, n - 1)
         IN  shorter \cup {Append(l, x) : l \in shorter, x \in S}

---------------------------------------------------------------------------
(* process_symbols *)

TIMESTAMP_MARKER ==   \* "MBED_BUILD_TIMESTAMP"
    <<77, 66, 69, 68, 95, 66, 85, 73, 76, 68, 95, 84, 73, 77, 69, 83, 84, 65, 77, 80>>
QUOTE == <<34>>              \* '"'
DOT_H == <<46, 104>>         \* ".h"
ESCAPED_QUOTE == <<92, 34>>  \* '\\"'
EQUALS == <<61>>             \* "="

\* s.split("=", 1)[0]: the macro's name
RECURSIVE NameOf(_)
NameOf(s) ==
    IF s = <<>> \/ <<Head(s)>> = EQUALS THEN <<>>
    ELSE <<Head(s)>> \o NameOf(Tail(s))

\* the test of the `if` branch: the entry is skipped
has_timestamp_in_name(s) == In(TIMESTAMP_MARKER, NameOf(s))
has_timestamp(s) == In(TIMESTAMP_MARKER, s)

\* the `elif` branch: quotes are escaped in entries holding '"' and ".h"
escape_any_quote(s) ==
    IF In(QUOTE, s) THEN Replace(s, QUOTE, ESCAPED_QUOTE) ELSE s
escape_includes(s) ==
    IF In(QUOTE, s) /\ In(DOT_H, s) THEN Replace(s, QUOTE, ESCAPED_QUOTE) ELSE s

\* the loop: result.append(s) for every entry not skipped
RECURSIVE collect_symbols(_)
collect_symbols(symbols) ==
    IF symbols = <<>> THEN <<>>
    ELSE IF has_timestamp(Head(symbols)) THEN collect_symbols(Tail(symbols))
    ELSE <<escape_includes(Head(symbols))>> \o collect_symbols(Tail(symbols))

process_symbols_unsorted(symbols) == collect_symbols(symbols)
process_symbols(symbols) == Sort(collect_symbols(symbols))

\* the raw entries: a bare name, or NAME=VALUE
MaxSymbols == 3
SymbolNames ==
    { <<70, 79, 79>>,       \* FOO
      TIMESTAMP_MARKER,     \* MBED_BUILD_TIMESTAMP
      <<70, 46, 104>> }     \* F.h
SymbolValues ==
    { TIMESTAMP_MARKER,                       \* MBED_BUILD_TIMESTAMP
      <<34, 99, 46, 104, 34>>,                \* "c.h"
      <<92, 34, 99, 46, 104, 92, 34>>,        \* \"c.h\"
      <<34, 120, 34>> }                       \* "x"
SymbolEntries ==
    SymbolNames \cup {n \o EQUALS \o v : n \in SymbolNames, v \in SymbolValues}

SymbolsIdle ==
    /\ raw_symbols = <<>>
    /\ build_symbols = <<>>
    /\ symbols_done = FALSE

InitSymbols ==
    /\ raw_symbols \in ListsUpTo(SymbolEntries, MaxSymbols)
    /\ build_symbols = <<>>
    /\ symbols_done = FALSE

ProcessSymbols ==
    /\ ~symbols_done
    /\ build_symbols' = process_symbols(raw_symbols)
    /\ symbols_done' = TRUE
    /\ UNCHANGED <<raw_symbols, framework_path, path_vars, adapter_vars>>

---------------------------------------------------------------------------
(* fix_path and fix_paths *)

SEP == <<47>>   \* os.path.sep, "/"

\* os.path.basename(p): what follows the last separator
RECURSIVE basename(_)
basename(p) ==
    IF p = <<>> \/ <<p[Len(p)]>> = SEP THEN <<>>
    ELSE Append(basename(SubSeq(p, 1, Len(p) - 1)), p[Len(p)])

\* sep.join(components)
RECURSIVE Join(_)
Join(components) ==
    IF components = <<>> THEN <<>>
    ELSE IF Len(components) = 1 THEN Head(components)
    ELSE Head(components) \o SEP \o Join(Tail(components))

fix_path(path) ==
    IF path = <<>> THEN <<>>
    ELSE LET framework_dir == basename(framework_path)
         IN  IF In(framework_dir, path)
             THEN LET fixed_path_ ==
                          From(path, Index(path, framework_dir) + Len(framework_dir))
                  IN  From(fixed_path_, 1)
             ELSE path

RECURSIVE fix_paths(_)
fix_paths(paths) ==
    IF paths = <<>> THEN <<>>
    ELSE LET path == fix_path(Head(paths))
         IN  IF path = <<>> THEN fix_paths(Tail(paths))
             ELSE <<path>> \o fix_paths(Tail(paths))

MaxComponents == 3
MaxPaths == 2
PathComponents ==
    { <<102, 119, 95, 114, 111, 111, 116>>,        \* fw_root
      <<105, 110, 116, 101, 114, 110, 97, 108>> }  \* internal
FrameworkPaths ==
    { <<47, 112, 107, 103, 115, 47, 102, 119, 95, 114, 111, 111, 116>>,      \* /pkgs/fw_root
      <<47, 112, 107, 103, 115, 47, 105, 110, 116, 101, 114, 110, 97, 108>>, \* /pkgs/internal
      <<47, 112, 107, 103, 115, 47, 109, 98, 101, 100>>,                     \* /pkgs/mbed
      <<47, 112, 107, 103, 115, 47, 102, 119, 95, 114, 111, 111, 116, 47>> } \* /pkgs/fw_root/
PathInputs == {Join(c) : c \in ListsUpTo(PathComponents, MaxComponents)}

PathsIdle ==
    /\ raw_paths = <<>>
    /\ fixed_paths = <<>>
    /\ paths_done = FALSE
    /\ raw_path = <<>>
    /\ fixed_path = <<>>
    /\ path_done = FALSE

InitPaths ==
    /\ framework_path \in FrameworkPaths
    /\ raw_paths \in ListsUpTo(PathInputs, MaxPaths)
    /\ fixed_paths = <<>>
    /\ paths_done = FALSE
    /\ raw_path = <<>>
    /\ fixed_path = <<>>
    /\ path_done = FALSE

\* one call fix_path(path)
FixPath ==
    /\ ~path_done /\ ~paths_done
    /\ \E i \in 1..Len(raw_paths) :
           /\ raw_path' = raw_paths[i]
           /\ fixed_path' = fix_path(raw_paths[i])
    /\ path_done' = TRUE
    /\ UNCHANGED <<raw_paths, fixed_paths, paths_done, framework_path,
                   symbol_vars, adapter_vars>>

\* one call fix_paths(paths)
FixPaths ==
    /\ ~paths_done
    /\ fixed_paths' = fix_paths(raw_paths)
    /\ paths_done' = TRUE
    /\ UNCHANGED <<raw_paths, raw_path, fixed_path, path_done, framework_path,
                   symbol_vars, adapter_vars>>

---------------------------------------------------------------------------
(* the adapter object: __init__, extract_project_info, needs_merging,      *)
(* merge_apps                                                              *)

ADAPTER_FRAMEWORK_PATH ==   \* /pkgs/fw_root
    <<47, 112, 107, 103, 115, 47, 102, 119, 95, 114, 111, 111, 116>>

\* tools.targets.TARGET_MAP: the registry of targets
TARGET_MAP == [t \in {"NUCLEO_F401RE"} |-> "NUCLEO_F401RE target"]
Targets == {"NUCLEO_F401RE", "NOT_A_TARGET"}

\* tools.build_api.UPDATE_WHITELIST
UPDATE_WHITELIST == {"application"}

NoToolchain == [kind |-> "None"]
NoResources == [kind |-> "None"]
NoResult == [kind |-> "None"]

\* the regions a toolchain configuration may declare
MaxRegions == 2
Regions ==
    { [name |-> n, active |-> a, filename |-> n] :
          n \in {"bootloader", "application"}, a \in BOOLEAN }
RegionLists == ListsUpTo(Regions, MaxRegions)

\* toolchain.get_symbols()
RawSymbolLists ==
    { << <<70, 79, 79, 61, 49>>,                                \* FOO=1
         <<77, 66, 69, 68, 95, 66, 85, 73, 76, 68, 95, 84, 73, 77, 69, 83, 84,
           65, 77, 80, 61, 49>>,                                \* MBED_BUILD_TIMESTAMP=1
         <<66, 65, 82>> >>,                                     \* BAR
      << <<73, 78, 67, 61, 34, 99, 46, 104, 34>> >> }           \* INC="c.h"

\* what prepare_toolchain may return
Toolchains ==
    { [kind |-> "toolchain", has_regions |-> rl # <<>>, regions |-> rl,
       symbols |-> sy, flags |-> "flags", sys_libs |-> "sys_libs",
       target |-> "NUCLEO_F401RE target"] :
          rl \in RegionLists, sy \in RawSymbolLists }

PKGS == <<112, 107, 103, 115>>                 \* pkgs
FW_ROOT == <<102, 119, 95, 114, 111, 111, 116>>   \* fw_root
DRIVERS == <<100, 114, 105, 118, 101, 114, 115>>  \* drivers
LIB == <<108, 105, 98>>                        \* lib
UART_C == <<117, 97, 114, 116, 46, 99>>        \* uart.c
BOOT_S == <<98, 111, 111, 116, 46, 83>>        \* boot.S
MAIN_CPP == <<109, 97, 105, 110, 46, 99, 112, 112>>   \* main.cpp
UART_O == <<117, 97, 114, 116, 46, 111>>       \* uart.o
T_LD == <<116, 46, 108, 100>>                  \* t.ld
LIBX_A == <<108, 105, 98, 120, 46, 97>>        \* libx.a
SD_HEX == <<115, 100, 46, 104, 101, 120>>      \* sd.hex
BL_BIN == <<98, 108, 46, 98, 105, 110>>        \* bl.bin

\* what Resources(notify).scan_with_toolchain may return
ScanResults ==
    { [kind |-> "resources",
       s_sources |-> << Join(<<PKGS, FW_ROOT, DRIVERS, BOOT_S>>) >>,
       c_sources |-> << Join(<<PKGS, FW_ROOT, DRIVERS, UART_C>>) >>,
       cpp_sources |-> << Join(<<PKGS, FW_ROOT, MAIN_CPP>>) >>,
       inc_dirs |-> << Join(<<PKGS, FW_ROOT>>), Join(<<PKGS, FW_ROOT, DRIVERS>>) >>,
       linker_script |-> Join(<<PKGS, FW_ROOT, T_LD>>),
       objects |-> << Join(<<PKGS, FW_ROOT, UART_O>>) >>,
       libraries |-> << Join(<<PKGS, FW_ROOT, LIB, LIBX_A>>) >>,
       lib_dirs |-> << Join(<<PKGS, FW_ROOT, LIB>>) >>,
       hex_files |-> << Join(<<PKGS, FW_ROOT, SD_HEX>>) >>,
       bin_files |-> << Join(<<PKGS, FW_ROOT, BL_BIN>>) >>],
      [kind |-> "resources",
       s_sources |-> <<>>,
       c_sources |-> << Join(<<DRIVERS, UART_C>>) >>,
       cpp_sources |-> <<>>,
       inc_dirs |-> <<>>,
       linker_script |-> <<>>,
       objects |-> <<>>,
       libraries |-> <<>>,
       lib_dirs |-> <<>>,
       hex_files |-> <<>>,
       bin_files |-> <<>>] }

\* os.path.relpath, on the source roots the model uses
relpath(s) == IF s = "/cwd/src" THEN "src" ELSE s

\* the src_paths argument: one str, or a list of str
SrcPaths ==
    { [is_list |-> FALSE, items |-> <<"/cwd/src">>],
      [is_list |-> TRUE, items |-> <<"/cwd/src", "lib">>] }

\* self.src_paths after the conversion to a list of relative paths
normalized_src_paths(paths) ==
    [is_list |-> TRUE,
     items |-> [i \in 1..Len(paths.items) |-> relpath(paths.items[i])]]

PROFILE_MISSING == <<"Could not find the file with build profiles!\n">>

InitAdapter ==
    /\ target \in Targets
    /\ profile_isfile \in BOOLEAN
    /\ src_paths \in SrcPaths
    /\ toolchain = NoToolchain
    /\ resources = NoResources
    /\ pc = "idle"
    /\ last_call = "__init__"
    /\ generate_config = FALSE
    /\ calls = <<>>
    /\ stderr = <<>>
    /\ error = "none"
    /\ result = NoResult
    /\ merges = <<>>
    /\ merge_args = <<>>
    /\ merging = "none"

AdapterIdle ==
    /\ target = "NUCLEO_F401RE"
    /\ profile_isfile = TRUE
    /\ src_paths = [is_list |-> FALSE, items |-> <<"/cwd/src">>]
    /\ toolchain = NoToolchain
    /\ resources = NoResources
    /\ pc = "idle"
    /\ last_call = "__init__"
    /\ generate_config = FALSE
    /\ calls = <<>>
    /\ stderr = <<>>
    /\ error = "none"
    /\ result = NoResult
    /\ merges = <<>>
    /\ merge_args = <<>>
    /\ merging = "none"

\* the process ends with an exception nobody catches
Dies(exception) ==
    /\ pc' = "dead"
    /\ error' = exception

\* extract_project_info is called; its first statement is get_target_config():
\* with the target missing, sys.stderr.write is given two arguments and raises
\* TypeError before anything is written and before sys.exit(1) is reached
GetTargetConfigNoExit ==
    /\ pc = "idle"
    /\ last_call' = "extract_project_info"
    /\ \E flag \in BOOLEAN : generate_config' = flag
    /\ calls' = <<"TARGET_MAP.get">>
    /\ pc' = "get_build_profile"
    /\ UNCHANGED <<error, stderr>>
    /\ result' = NoResult
    /\ merges' = <<>> /\ merge_args' = <<>> /\ merging' = "none"
    /\ UNCHANGED <<target, profile_isfile, src_paths, toolchain, resources,
                   framework_path, symbol_vars, path_vars>>
GetTargetConfig ==
    /\ pc = "idle"
    /\ last_call' = "extract_project_info"
    /\ \E flag \in BOOLEAN : generate_config' = flag
    /\ calls' = <<"TARGET_MAP.get">>
    /\ IF target \in DOMAIN TARGET_MAP
       THEN pc' = "get_build_profile" /\ UNCHANGED error
       ELSE Dies("TypeError")
    /\ UNCHANGED stderr
    /\ result' = NoResult
    /\ merges' = <<>> /\ merge_args' = <<>> /\ merging' = "none"
    /\ UNCHANGED <<target, profile_isfile, src_paths, toolchain, resources,
                   framework_path, symbol_vars, path_vars>>

\* get_build_profile()
GetBuildProfile ==
    /\ pc = "get_build_profile"
    /\ IF profile_isfile
       THEN /\ calls' = calls \o <<"isfile", "json.load">>
            /\ pc' = "prepare_toolchain"
            /\ UNCHANGED <<stderr, error>>
       ELSE /\ calls' = Append(calls, "isfile")
            /\ stderr' = Append(stderr, PROFILE_MISSING)
            /\ Dies("SystemExit(1)")
    /\ UNCHANGED <<target, profile_isfile, src_paths, toolchain, resources,
                   last_call, generate_config, result, merges, merge_args,
                   merging, framework_path, symbol_vars, path_vars>>

\* the conversion of self.src_paths and the call of prepare_toolchain, which
\* returns a toolchain or raises
PrepareToolchain ==
    /\ pc = "prepare_toolchain"
    /\ src_paths' = normalized_src_paths(src_paths)
    /\ calls' = Append(calls, "prepare_toolchain")
    /\ \/ /\ \E tc \in Toolchains : toolchain' = tc
          /\ pc' = "scan_with_toolchain"
          /\ UNCHANGED error
       \/ /\ Dies("external fault")
          /\ UNCHANGED toolchain
    /\ UNCHANGED <<target, profile_isfile, resources, last_call,
                   generate_config, stderr, result, merges, merge_args,
                   merging, framework_path, symbol_vars, path_vars>>

\* Resources(self.notify).scan_with_toolchain, which returns the resources or
\* raises
ScanWithToolchain ==
    /\ pc = "scan_with_toolchain"
    /\ calls' = Append(calls, "scan_with_toolchain")
    /\ \/ /\ \E scanned \in ScanResults : resources' = scanned
          /\ pc' = "result"
          /\ UNCHANGED error
       \/ /\ Dies("external fault")
          /\ UNCHANGED resources
    /\ UNCHANGED <<target, profile_isfile, src_paths, toolchain, last_call,
                   generate_config, stderr, result, merges, merge_args,
                   merging, framework_path, symbol_vars, path_vars>>

\* if generate_config: self.generate_mbed_config_file()
always_config_header(flag) == <<"get_config_header">>
config_header_calls(flag) == IF flag THEN <<"get_config_header">> ELSE <<>>

\* the calls made while the result mapping is built, in the order of its keys
result_calls ==
    <<"fix_paths", "fix_paths", "fix_paths", "fix_paths", "fix_paths",
      "fix_paths", "get_symbols", "process_symbols", "fix_paths", "fix_paths">>

\* [basename(l) for l in libraries]
basenames(libraries) == [i \in 1..Len(libraries) |-> basename(libraries[i])]

\* the result mapping
project_info(tc, res) ==
    [kind |-> "result",
     src_files |-> fix_paths(res.s_sources \o res.c_sources \o res.cpp_sources),
     inc_dirs |-> fix_paths(res.inc_dirs),
     ldscript |-> fix_paths(<<res.linker_script>>),
     objs |-> fix_paths(res.objects),
     build_flags |-> tc.flags,
     libs |-> basenames(fix_paths(res.libraries)),
     lib_paths |-> fix_paths(res.lib_dirs),
     syslibs |-> tc.sys_libs,
     build_symbols |-> process_symbols(tc.symbols),
     hex |-> fix_paths(res.hex_files),
     bin |-> fix_paths(res.bin_files)]

\* the rest of extract_project_info: the configuration header, the result
\* mapping, the return
ReturnResultDiscarding ==
    /\ pc = "result"
    /\ calls' = calls \o config_header_calls(generate_config) \o result_calls
    /\ result' = project_info(toolchain, resources)
    /\ toolchain' = NoToolchain
    /\ resources' = NoResources
    /\ pc' = "idle"
    /\ UNCHANGED <<target, profile_isfile, src_paths, last_call,
                   generate_config, stderr, error, merges, merge_args, merging,
                   framework_path, symbol_vars, path_vars>>
ReturnResult ==
    /\ pc = "result"
    /\ calls' = calls \o config_header_calls(generate_config) \o result_calls
    /\ result' = project_info(toolchain, resources)
    /\ pc' = "idle"
    /\ UNCHANGED <<target, profile_isfile, src_paths, toolchain, resources,
                   last_call, generate_config, stderr, error, merges,
                   merge_args, merging, framework_path, symbol_vars, path_vars>>

\* needs_merging(): self.toolchain.config.has_regions, an AttributeError while
\* self.toolchain is None
NeedsMerging ==
    /\ pc = "idle"
    /\ last_call' = "needs_merging"
    /\ IF toolchain = NoToolchain
       THEN Dies("AttributeError") /\ UNCHANGED merging
       ELSE /\ merging' = IF toolchain.has_regions THEN "True" ELSE "False"
            /\ UNCHANGED <<pc, error>>
    /\ calls' = <<>> /\ result' = NoResult
    /\ merges' = <<>> /\ merge_args' = <<>>
    /\ UNCHANGED <<target, profile_isfile, src_paths, toolchain, resources,
                   generate_config, stderr, framework_path, symbol_vars,
                   path_vars>>

\* [r._replace(filename=userprog_path) if r.active else r for r in region_list]
replace_every_filename(region_list, userprog_path) ==
    [i \in 1..Len(region_list) |->
        [region_list[i] EXCEPT !.filename = userprog_path]]
replace_active_filename(region_list, userprog_path) ==
    [i \in 1..Len(region_list) |->
        IF region_list[i].active
        THEN [region_list[i] EXCEPT !.filename = userprog_path]
        ELSE region_list[i]]

\* [r for r in region_list if r.name in UPDATE_WHITELIST]
InWhitelist(r) == r.name \in UPDATE_WHITELIST
update_regions_of(region_list) == SelectSeq(region_list, InWhitelist)

\* the merge_region_list calls of merge_apps: the regions and the destination
merge_requests(tc, userprog_path, firmware_path) ==
    IF tc.has_regions
    THEN LET region_list == replace_active_filename(tc.regions, userprog_path)
             update_regions == update_regions_of(region_list)
         IN  << [regions |-> region_list,
                 destination |-> [path |-> firmware_path, update |-> FALSE]] >>
             \o (IF update_regions # <<>>
                 THEN << [regions |-> update_regions,
                          destination |-> [path |-> firmware_path,
                                           update |-> TRUE]] >>
                 ELSE <<>>)
    ELSE <<>>

UserprogPaths == {"userprog.bin"}
FirmwarePaths == {"firmware.bin", "firmware.hex"}

\* merge_apps(userprog_path, firmware_path)
MergeApps ==
    /\ pc = "idle"
    /\ last_call' = "merge_apps"
    /\ \E userprog_path \in UserprogPaths, firmware_path \in FirmwarePaths :
          /\ merge_args' = [userprog_path |-> userprog_path,
                            firmware_path |-> firmware_path]
          /\ IF toolchain = NoToolchain
             THEN Dies("AttributeError") /\ UNCHANGED merges
             ELSE /\ merges' = merge_requests(toolchain, userprog_path,
                                              firmware_path)
                  /\ UNCHANGED <<pc, error>>
    /\ calls' = <<>> /\ result' = NoResult /\ merging' = "none"
    /\ UNCHANGED <<target, profile_isfile, src_paths, toolchain, resources,
                   generate_config, stderr, framework_path, symbol_vars,
                   path_vars>>

---------------------------------------------------------------------------
(* the specifications *)

\* one adapter object and the calls made on it
Init ==
    /\ InitAdapter
    /\ framework_path = ADAPTER_FRAMEWORK_PATH
    /\ SymbolsIdle
    /\ PathsIdle

Next ==
    \/ GetTargetConfig
    \/ GetBuildProfile
    \/ PrepareToolchain
    \/ ScanWithToolchain
    \/ ReturnResult
    \/ NeedsMerging
    \/ MergeApps

Spec == Init /\ [][Next]_vars

\* process_symbols on every raw symbol list
InitSymbolSpec ==
    /\ InitSymbols
    /\ framework_path = ADAPTER_FRAMEWORK_PATH
    /\ PathsIdle
    /\ AdapterIdle

SymbolSpec == InitSymbolSpec /\ [][ProcessSymbols]_vars

\* fix_path and fix_paths on every list of paths
InitPathSpec ==
    /\ InitPaths
    /\ SymbolsIdle
    /\ AdapterIdle

NextPaths ==
    \/ FixPath
    \/ FixPaths

PathSpec == InitPathSpec /\ [][NextPaths]_vars

---------------------------------------------------------------------------
(* the properties *)

TargetMissing == target \notin DOMAIN TARGET_MAP

\* extract_project_info has returned its result mapping
Returned ==
    /\ last_call = "extract_project_info"
    /\ pc = "idle"
    /\ result # NoResult

\* how often x occurs in a list
Count(list, x) == Cardinality({i \in 1..Len(list) : list[i] = x})

\* C1: with the target absent from TARGET_MAP, extract_project_info ends the
\* process and has called neither prepare_toolchain nor scan_with_toolchain,
\* whatever generate_config and the other constructor arguments are
C1_NoToolchainForMissingTarget ==
    (TargetMissing /\ last_call = "extract_project_info")
        => /\ pc = "dead"
           /\ error # "none"
           /\ Count(calls, "prepare_toolchain") = 0
           /\ Count(calls, "scan_with_toolchain") = 0
           /\ toolchain = NoToolchain
           /\ resources = NoResources
           /\ result = NoResult

C1_Witness ==
    /\ TargetMissing
    /\ last_call = "extract_project_info"
    /\ generate_config
    /\ profile_isfile
    /\ pc = "dead"

\* the one-line diagnostic that names the missing resource
C2_Diagnostic ==
    IF TargetMissing
    THEN <<"Failed to extract info for ", target, " target\n">>
    ELSE PROFILE_MISSING

\* C2: a missing target and a missing build-profile file end the same way: one
\* diagnostic line naming the missing resource on the error stream, then
\* sys.exit(1), and no result mapping
C2_SameErrorOutcome ==
    (last_call = "extract_project_info" /\ pc = "dead"
         /\ (TargetMissing \/ ~profile_isfile))
        => /\ error = "SystemExit(1)"
           /\ stderr = <<C2_Diagnostic>>
           /\ result = NoResult

\* ascending, equal neighbours allowed
Sorted(list) == \A i \in 1..(Len(list) - 1) : ~StrLess(list[i + 1], list[i])

\* strictly ascending
StrictlySorted(list) ==
    \A i \in 1..(Len(list) - 1) : StrLess(list[i], list[i + 1])

\* the list in the order p
Permuted(list, p) == [i \in 1..Len(list) |-> list[p[i]]]

\* every permutation of the raw list gives the list process_symbols returned
PermutationInvariant ==
    \A p \in Permutations(1..Len(raw_symbols)) :
        process_symbols(Permuted(raw_symbols, p)) = build_symbols

\* the raw entries that hold no timestamp marker, in input order
HasNoMarker(s) == ~In(TIMESTAMP_MARKER, s)
Unmarked == SelectSeq(raw_symbols, HasNoMarker)

\* C3 as claimed: the output of process_symbols is strictly ascending for every
\* raw list, repeated entries included, and the same for every permutation
C3_StrictlySorted ==
    symbols_done => StrictlySorted(build_symbols) /\ PermutationInvariant

\* C3 as amended: the output of process_symbols is ascending, strictly so
\* exactly when no entry without the marker is repeated in the raw list, and
\* the same for every permutation of the raw list
C3_Sorted ==
    symbols_done
        => /\ Sorted(build_symbols)
           /\ StrictlySorted(build_symbols)
                  <=> (\A i, j \in 1..Len(Unmarked) :
                           i # j => Unmarked[i] # Unmarked[j])
           /\ PermutationInvariant

C3_Witness ==
    /\ symbols_done
    /\ Len(build_symbols) = 3
    /\ build_symbols[1] = build_symbols[2]
    /\ StrLess(raw_symbols[3], raw_symbols[1])

\* the entry with a backslash put before every quote
Escaped(s) == Replace(s, QUOTE, ESCAPED_QUOTE)

\* s.split("=", 1)[1], or "" for a bare name
ValueOf(s) == IF In(EQUALS, s) THEN From(s, Index(s, EQUALS) + 1) ELSE <<>>

MarkerInName(s) == In(TIMESTAMP_MARKER, NameOf(s))
MarkerInEntry(s) == In(TIMESTAMP_MARKER, s)

\* C4 as claimed: process_symbols drops exactly the entries whose name holds
\* the marker, so the output has the input's length minus their number
C4_DropsMarkerInName ==
    symbols_done
        => Len(build_symbols) =
               Len(raw_symbols)
                   - Cardinality({i \in 1..Len(raw_symbols) :
                                      MarkerInName(raw_symbols[i])})

\* C4 as amended: process_symbols drops exactly the entries that hold the
\* marker anywhere, in the name or in the value, and retains every other entry
C4_DropsMarkerInEntry ==
    symbols_done
        => /\ Len(build_symbols) =
                  Len(raw_symbols)
                      - Cardinality({i \in 1..Len(raw_symbols) :
                                         MarkerInEntry(raw_symbols[i])})
           /\ \A j \in 1..Len(build_symbols) : ~MarkerInEntry(build_symbols[j])
           /\ \A i \in 1..Len(raw_symbols) :
                  ~MarkerInEntry(raw_symbols[i])
                      => \E j \in 1..Len(build_symbols) :
                             build_symbols[j] \in
                                 {raw_symbols[i], Escaped(raw_symbols[i])}

C4_Witness ==
    /\ symbols_done
    /\ Len(build_symbols) = 1
    /\ \E i, j \in 1..Len(raw_symbols) :
           /\ MarkerInName(raw_symbols[i])
           /\ MarkerInEntry(raw_symbols[j]) /\ ~MarkerInName(raw_symbols[j])

\* every quote of s has a backslash right before it
QuotesEscaped(s) ==
    \A i \in 1..Len(s) :
        <<s[i]>> = QUOTE => i > 1 /\ <<s[i - 1], s[i]>> = ESCAPED_QUOTE

\* out holds the entries of expected, each as often
SameEntries(out, expected) ==
    /\ Len(out) = Len(expected)
    /\ \A i \in 1..Len(expected) :
           Count(out, expected[i]) = Count(expected, expected[i])

IncludeInValue(s) == In(QUOTE, ValueOf(s)) /\ In(DOT_H, ValueOf(s))
IncludeInEntry(s) == In(QUOTE, s) /\ In(DOT_H, s)

RECURSIVE Split(_)
Split(path) ==
    IF ~In(SEP, path) THEN <<path>>
    ELSE <<SubSeq(path, 1, Index(path, SEP))>>
             \o Split(From(path, Index(path, SEP) + 1))

\* path.split(sep)[2:] rejoined: the two leading components discarded
drop_two_components(path) ==
    LET components == Split(path)
    IN  IF Len(components) <= 2 THEN <<>>
        ELSE Join(SubSeq(components, 3, Len(components)))

\* C6: a path of N >= 2 components comes out of fix_path as its components
\* [2:N] rejoined, whatever the two leading ones and framework_path are
C6_DropsTwoComponents ==
    (path_done /\ Len(Split(raw_path)) >= 2)
        => fixed_path = drop_two_components(raw_path)

\* the paths of more than two components, in input order
IsLong(path) == Len(Split(path)) > 2
LongPaths == SelectSeq(raw_paths, IsLong)

\* C7: fix_path returns "" for a path of at most two components, and fix_paths
\* returns no empty string and no such short path, the rest in input order
C7_ShortPathsDropped ==
    /\ (path_done /\ Len(Split(raw_path)) <= 2) => fixed_path = <<>>
    /\ paths_done
           => /\ \A i \in 1..Len(fixed_paths) : fixed_paths[i] # <<>>
              /\ fixed_paths = [i \in 1..Len(LongPaths) |-> fix_path(LongPaths[i])]

\* C8: with regions declared, merge_apps asks for one merge into firmware_path
\* over the regions with exactly the active ones' filename replaced by
\* userprog_path, and for a second merge, the update image, exactly when a
\* region name is in UPDATE_WHITELIST; with no regions it asks for no merge
C8_MergeRequests ==
    (last_call = "merge_apps" /\ error = "none")
        => IF toolchain.has_regions
           THEN /\ Len(merges) \in {1, 2}
                /\ merges[1].destination =
                       [path |-> merge_args.firmware_path, update |-> FALSE]
                /\ Len(merges[1].regions) = Len(toolchain.regions)
                /\ \A i \in 1..Len(toolchain.regions) :
                       LET before == toolchain.regions[i]
                           after == merges[1].regions[i]
                       IN  IF before.active
                           THEN /\ after.filename = merge_args.userprog_path
                                /\ after.name = before.name
                                /\ after.active
                           ELSE after = before
                /\ Len(merges) = 2
                       <=> \E i \in 1..Len(toolchain.regions) :
                               toolchain.regions[i].name \in UPDATE_WHITELIST
                /\ Len(merges) = 2
                       => merges[2].destination =
                              [path |-> merge_args.firmware_path, update |-> TRUE]
           ELSE merges = <<>>

C8_Witness ==
    /\ last_call = "merge_apps"
    /\ error = "none"
    /\ Len(merges) = 2
    /\ \E i, j \in 1..Len(toolchain.regions) :
           toolchain.regions[i].active /\ ~toolchain.regions[j].active

\* the place of the one occurrence of x in a list
Position(list, x) == CHOOSE i \in 1..Len(list) : list[i] = x

\* C9: a call of extract_project_info that returns has looked the target up,
\* loaded the build profile, prepared the toolchain and scanned the resources,
\* once each and in this order, before any path is fixed or symbol processed;
\* it has asked for the configuration header exactly when generate_config is
\* true, and then after prepare_toolchain
C9_CallOrder ==
    Returned
        => /\ SubSeq(calls, 1, 5) =
                  <<"TARGET_MAP.get", "isfile", "json.load",
                    "prepare_toolchain", "scan_with_toolchain">>
           /\ \A i \in 6..Len(calls) :
                  calls[i] \in {"get_config_header", "fix_paths", "get_symbols",
                                "process_symbols"}
           /\ Count(calls, "fix_paths") > 0
           /\ Count(calls, "process_symbols") = 1
           /\ Count(calls, "get_config_header") = (IF generate_config THEN 1 ELSE 0)
           /\ generate_config
                  => Position(calls, "get_config_header")
                         > Position(calls, "prepare_toolchain")

C9_Witness == Returned /\ generate_config

\* C10 as claimed: when extract_project_info has returned, the adapter holds
\* no toolchain and no scan result of that call
C10_NothingRetained ==
    Returned => toolchain = NoToolchain /\ resources = NoResources

\* C10 as amended: when extract_project_info has returned, the adapter holds
\* the toolchain and the scan result of that call, and needs_merging and
\* merge_apps answer from the toolchain held: they raise AttributeError
\* before the first extract_project_info and not after it
C10_ToolchainRetained ==
    /\ Returned
           => /\ toolchain \in Toolchains
              /\ resources \in ScanResults
              /\ result.build_symbols = process_symbols(toolchain.symbols)
              /\ result.inc_dirs = fix_paths(resources.inc_dirs)
              /\ src_paths.is_list
    /\ last_call \in {"needs_merging", "merge_apps"}
           => (error = "AttributeError" <=> toolchain = NoToolchain)
    /\ (last_call = "needs_merging" /\ error = "none")
           => merging = (IF toolchain.has_regions THEN "True" ELSE "False")

C10_Witness ==
    /\ last_call = "needs_merging"
    /\ error = "none"
    /\ merging = "True"

=============================================================================
